---- MODULE Spec2Model ----
(***************************************************************************)
(* MarkdownPreviewManager (features/previewManager.ts): the registry of   *)
(* markdown preview sessions.  The manager's fields and handlers are       *)
(* translated from previewManager.ts.  MarkdownPreview (features/preview), *)
(* disposeAll (util/dispose), isMarkdownFile (util/file) and the host      *)
(* (vscode.window, webview panels) are collaborators whose code is not in  *)
(* the source tree; they are modelled from the design document.            *)
(***************************************************************************)
EXTENDS Integers, Sequences, FiniteSets, TLC

\* ---------------------------------------------------------------- bounds
MaxCreated == 3      \* sessions ever created or revived in one run

Resources == {"docA", "docB"}
Columns == {1, 2}
Handles == 1 .. MaxCreated

\* `undefined` for a MarkdownPreview reference
NoPreview == 0

VARIABLES
    previews,             \* this.previews: sequence of session handles
    activePreview,        \* this.activePreview: a handle or NoPreview
    disposables,          \* TRUE while the constructor's subscriptions are live
    markdownPreviewFocus, \* value of the 'markdownPreviewFocus' context key
    markdownPreview,      \* the MarkdownPreview objects, by handle
    op,                   \* the handler that ran last, with its arguments
    calls,                \* the calls that handler made on sessions, in order
    result                \* what that handler returned

vars == <<previews, activePreview, disposables, markdownPreviewFocus,
          markdownPreview, op, calls, result>>

\* ------------------------------------------------- MarkdownPreview object
Uninitialized ==
    [status |-> "Uninitialized", resource |-> "docA", column |-> 1,
     locked |-> FALSE]

\* The state blob a session serializes to.  The scroll line it also carries
\* is never read by the manager and is left out.
States == [resource : Resources, column : Columns, locked : BOOLEAN]

NoState == [resource |-> "undefined", column |-> 0, locked |-> FALSE]

\* A disposed session that nothing refers to any more
Garbage ==
    [status |-> "Disposed", resource |-> "docA", column |-> 1, locked |-> FALSE]

create(resource, previewColumn, locked) ==
    [status |-> "Active", resource |-> resource, column |-> previewColumn,
     locked |-> locked]

revive(webviewValid, st) ==
    [status |-> "Active", resource |-> st.resource, column |-> st.column,
     locked |-> st.locked]

state(p) ==
    [resource |-> p.resource, column |-> p.column, locked |-> p.locked]

matchesResource(p, otherResource, otherViewColumn, otherLocked) ==
    /\ p.resource = otherResource
    /\ p.column = otherViewColumn
    /\ p.locked = otherLocked

matches(p, otherPreview) ==
    matchesResource(p, otherPreview.resource, otherPreview.column,
                    otherPreview.locked)

update(p, resource) ==
    IF p.locked /\ p.resource # resource THEN p
    ELSE [p EXCEPT !.resource = resource]

previewToggleLock(p) == [p EXCEPT !.locked = ~p.locked]

isWebviewOf(h, webview) == h = webview

isMarkdownFile(document) == document.markdown

\* --------------------------------------------------------- array helpers
\* Array.prototype.indexOf, 1-based; 0 stands for -1
indexOf(arr, x) ==
    IF \E i \in 1 .. Len(arr) : arr[i] = x
    THEN CHOOSE i \in 1 .. Len(arr) :
             arr[i] = x /\ \A j \in 1 .. (i - 1) : arr[j] # x
    ELSE 0

\* A splice that removes the first element whatever the index
spliceFirst(arr, i) == Tail(arr)

\* Array.prototype.splice(i, 1)
splice(arr, i) == SubSeq(arr, 1, i - 1) \o SubSeq(arr, i + 1, Len(arr))

\* Array.prototype.find: the first element of arr that is in `satisfying`
\* (the handles the callback accepts), or NoPreview
find(arr, satisfying) ==
    IF \E i \in 1 .. Len(arr) : arr[i] \in satisfying
    THEN arr[CHOOSE i \in 1 .. Len(arr) :
                 /\ arr[i] \in satisfying
                 /\ \A j \in 1 .. (i - 1) : arr[j] \notin satisfying]
    ELSE NoPreview

Range(arr) == {arr[i] : i \in 1 .. Len(arr)}

\* ------------------------------------------------ disposal of sessions
\* An onDispose listener that leaves this.previews alone
onDisposeNoSplice(arr, preview) == arr

\* The listener registerPreview attaches to preview.onDispose
onDispose(arr, preview) ==
    LET existing == indexOf(arr, preview)
    IN  IF existing >= 1 THEN splice(arr, existing) ELSE arr

\* MarkdownPreview.dispose on the pair W = [previews, heap]: a session that is
\* already disposed does nothing; otherwise it is marked disposed and its
\* onDispose listener runs.
dispose(W, preview) ==
    IF W.heap[preview].status = "Disposed" THEN W
    ELSE [previews |-> onDispose(W.previews, preview),
          heap |-> [W.heap EXCEPT ![preview].status = "Disposed"]]

\* util/dispose disposeAll: pops the items one by one and disposes each
RECURSIVE disposeAll(_, _)
disposeAll(W, items) ==
    IF items = <<>> THEN W
    ELSE disposeAll(dispose(W, items[Len(items)]),
                    SubSeq(items, 1, Len(items) - 1))

\* ------------------------------------------------------------ the manager
World == [previews |-> previews, heap |-> markdownPreview]

Created == {h \in Handles : markdownPreview[h].status # "Uninitialized"}

CanCreate == Created # Handles

NewHandle == CHOOSE h \in Handles \ Created : \A g \in Handles \ Created : h <= g

\* getExistingPreview asking for the opposite lock flag
getExistingPreviewWrongLock(resource, previewColumn, locked) ==
    find(previews,
         {h \in Handles : matchesResource(markdownPreview[h], resource,
                                          previewColumn, ~locked)})

\* getExistingPreview comparing resource and column only
getExistingPreviewAnyLock(resource, previewColumn, locked) ==
    find(previews,
         {h \in Handles : \/ matchesResource(markdownPreview[h], resource,
                                             previewColumn, TRUE)
                          \/ matchesResource(markdownPreview[h], resource,
                                             previewColumn, FALSE)})

\* getExistingPreview comparing column and lock flag only
getExistingPreviewAnyResource(resource, previewColumn, locked) ==
    find(previews,
         {h \in Handles : \E r \in Resources :
              matchesResource(markdownPreview[h], r, previewColumn, locked)})

getExistingPreview(resource, previewColumn, locked) ==
    find(previews,
         {h \in Handles : matchesResource(markdownPreview[h], resource,
                                          previewColumn, locked)})

\* registerPreview putting the session at the front of this.previews
registerPreviewUnshift(arr, preview) == <<preview>> \o arr

\* registerPreview: push onto this.previews (the listeners it attaches are
\* onDispose above and onDidChangeViewState below)
registerPreview(arr, preview) == Append(arr, preview)

\* The for-of loop of toggleLock: an array iterator over the live
\* this.previews, position i, disposing as it goes
RECURSIVE toggleLockLoop(_, _, _)
toggleLockLoop(W, preview, i) ==
    IF i > Len(W.previews) THEN W
    ELSE LET otherPreview == W.previews[i]
         IN  IF /\ otherPreview # preview
                /\ matches(W.heap[preview], W.heap[otherPreview])
             THEN toggleLockLoop(dispose(W, otherPreview), preview, i + 1)
             ELSE toggleLockLoop(W, preview, i + 1)

\* The view-state listener disposing the first redundant session only
redundantPreviewsFirstOnly(W, preview) ==
    LET all == SelectSeq(W.previews,
                         LAMBDA otherPreview :
                             /\ preview # otherPreview
                             /\ matches(W.heap[preview], W.heap[otherPreview]))
    IN  IF all = <<>> THEN all ELSE <<all[1]>>

\* The sessions the onDidChangeViewState listener of `preview` disposes
redundantPreviews(W, preview) ==
    SelectSeq(W.previews,
              LAMBDA otherPreview :
                  /\ preview # otherPreview
                  /\ matches(W.heap[preview], W.heap[otherPreview]))

\* The editor-change filter keeping the locked sessions instead
lockedPreviews(arr, heap) ==
    SelectSeq(arr, LAMBDA h : heap[h].locked)

\* The sessions the onDidChangeActiveTextEditor listener updates
unlockedPreviews(arr, heap) ==
    SelectSeq(arr, LAMBDA h : ~heap[h].locked)

activePreviewResource ==
    IF activePreview # NoPreview THEN markdownPreview[activePreview].resource
    ELSE "undefined"

\* The view-state listener recording the reporting session whatever it
\* reports
activeAfterViewStateAlways(preview, active) == preview

\* this.activePreview = active ? preview : undefined
activeAfterViewState(preview, active) ==
    IF active THEN preview ELSE NoPreview

\* The session objects still reachable from the manager: a disposed session
\* that is not this.activePreview is garbage
Collect(heap, active) ==
    [h \in Handles |->
        IF heap[h].status = "Disposed" /\ h # active THEN Garbage ELSE heap[h]]

\* ------------------------------------------------------- recorded history
\* `previous` is this.activePreview as a view-state listener found it
Op(name, preview, st, flag) ==
    [name |-> name, preview |-> preview, resource |-> st.resource,
     column |-> st.column, locked |-> st.locked, flag |-> flag,
     previous |-> NoPreview]

NoResult == [kind |-> "void", value |-> FALSE, state |-> NoState]

\* The loop calling the method on the unlocked sessions only
CallOnUnlocked(method, arr) ==
    [i \in 1 .. Len(unlockedPreviews(arr, markdownPreview)) |->
        <<method, unlockedPreviews(arr, markdownPreview)[i]>>]

\* for (const preview of this.previews) preview.<method>()
CallOn(method, arr) == [i \in 1 .. Len(arr) |-> <<method, arr[i]>>]

\* ---------------------------------------------------------------- inputs
NoEditor == [uri |-> "undefined", markdown |-> FALSE]

Documents == [uri : Resources, markdown : BOOLEAN]

Editors == {NoEditor} \cup Documents

\* Host panels that exist: the panels of sessions not yet disposed
Panels ==
    {h \in Handles : markdownPreview[h].status = "Active"}

\* ------------------------------------------------------------------ Init
Init ==
    /\ previews = <<>>
    /\ activePreview = NoPreview
    /\ disposables = TRUE
    /\ markdownPreviewFocus = FALSE
    /\ markdownPreview = [h \in Handles |-> Uninitialized]
    /\ op = Op("constructor", NoPreview, NoState, FALSE)
    /\ calls = <<>>
    /\ result = NoResult

\* --------------------------------------------------------------- actions
\* MarkdownPreviewManager.preview(resource, previewSettings)
preview(resource, previewColumn, locked) ==
    /\ disposables
    /\ LET existing == getExistingPreview(resource, previewColumn, locked)
           found == existing # NoPreview
           p == IF found THEN existing ELSE NewHandle
           heap1 == IF found THEN markdownPreview
                    ELSE [markdownPreview EXCEPT
                              ![p] = create(resource, previewColumn, locked)]
       IN  /\ found \/ CanCreate
           /\ previews' = IF found THEN previews ELSE registerPreview(previews, p)
           /\ markdownPreview' = [heap1 EXCEPT ![p] = update(heap1[p], resource)]
           /\ calls' = <<IF found THEN <<"reveal", p>> ELSE <<"create", p>>,
                         <<"update", p>>>>
           /\ op' = Op("preview", p,
                       [resource |-> resource, column |-> previewColumn,
                        locked |-> locked], found)
    /\ result' = NoResult
    /\ UNCHANGED <<activePreview, disposables, markdownPreviewFocus>>

\* MarkdownPreviewManager.toggleLock()
toggleLock ==
    /\ disposables
    /\ IF activePreview # NoPreview
       THEN LET heap1 == [markdownPreview EXCEPT
                              ![activePreview] = previewToggleLock(@)]
                W == toggleLockLoop([previews |-> previews, heap |-> heap1],
                                    activePreview, 1)
            IN  /\ previews' = W.previews
                /\ markdownPreview' = Collect(W.heap, activePreview)
                /\ calls' = <<<<"toggleLock", activePreview>>>>
       ELSE /\ UNCHANGED <<previews, markdownPreview>>
            /\ calls' = <<>>
    /\ op' = Op("toggleLock", activePreview, NoState, activePreview # NoPreview)
    /\ result' = NoResult
    /\ UNCHANGED <<activePreview, disposables, markdownPreviewFocus>>

\* MarkdownPreviewManager.refresh()
refresh ==
    /\ disposables
    /\ calls' = CallOn("refresh", previews)
    /\ op' = Op("refresh", NoPreview, NoState, FALSE)
    /\ result' = NoResult
    /\ UNCHANGED <<previews, activePreview, disposables, markdownPreviewFocus,
                   markdownPreview>>

\* MarkdownPreviewManager.updateConfiguration()
updateConfiguration ==
    /\ disposables
    /\ calls' = CallOn("updateConfiguration", previews)
    /\ op' = Op("updateConfiguration", NoPreview, NoState, FALSE)
    /\ result' = NoResult
    /\ UNCHANGED <<previews, activePreview, disposables, markdownPreviewFocus,
                   markdownPreview>>

\* deserializeWebview resolving to false
deserializeWebviewResultFalse(webviewValid) == FALSE

\* What deserializeWebview resolves to
deserializeWebviewResult(webviewValid) == TRUE

\* MarkdownPreviewManager.deserializeWebview(webview, state): the host hands
\* over a panel (valid or not) and a state blob persisted earlier
deserializeWebview(webviewValid, st) ==
    /\ disposables
    /\ CanCreate
    /\ LET p == NewHandle
       IN  /\ markdownPreview' =
                  [markdownPreview EXCEPT ![p] = revive(webviewValid, st)]
           /\ previews' = registerPreview(previews, p)
           /\ calls' = <<<<"revive", p>>, <<"refresh", p>>>>
           /\ op' = Op("deserializeWebview", p, st, webviewValid)
    /\ result' = [kind |-> "boolean",
                  value |-> deserializeWebviewResult(webviewValid),
                  state |-> NoState]
    /\ UNCHANGED <<activePreview, disposables, markdownPreviewFocus>>

\* serializeWebview looking the panel up among all sessions ever registered
serializeWebviewResultAnySession(webview) ==
    IF markdownPreview[webview].status # "Uninitialized"
    THEN [kind |-> "state", value |-> TRUE, state |-> state(markdownPreview[webview])]
    ELSE [kind |-> "undefined", value |-> FALSE, state |-> NoState]

\* What serializeWebview resolves to
serializeWebviewResult(webview) ==
    LET p == find(previews, {h \in Handles : isWebviewOf(h, webview)})
    IN  IF p # NoPreview
        THEN [kind |-> "state", value |-> TRUE, state |-> state(markdownPreview[p])]
        ELSE [kind |-> "undefined", value |-> FALSE, state |-> NoState]

\* MarkdownPreviewManager.serializeWebview(webview)
serializeWebview(webview) ==
    /\ disposables
    /\ result' = serializeWebviewResult(webview)
    /\ op' = Op("serializeWebview", webview, NoState, FALSE)
    /\ calls' = <<>>
    /\ UNCHANGED <<previews, activePreview, disposables, markdownPreviewFocus,
                   markdownPreview>>

\* MarkdownPreviewManager.dispose()
managerDispose ==
    /\ disposables
    /\ disposables' = FALSE
    /\ LET W == disposeAll(World, previews)
       IN  /\ previews' = W.previews
           /\ markdownPreview' = Collect(W.heap, activePreview)
    /\ calls' = CallOn("dispose", previews)
    /\ op' = Op("dispose", NoPreview, NoState, FALSE)
    /\ result' = NoResult
    /\ UNCHANGED <<activePreview, markdownPreviewFocus>>

\* The listener of vscode.window.onDidChangeActiveTextEditor; once the
\* manager's disposables are disposed the listener no longer runs
onDidChangeActiveTextEditor(editor) ==
    /\ LET targets == IF disposables /\ editor # NoEditor /\ isMarkdownFile(editor)
                      THEN unlockedPreviews(previews, markdownPreview)
                      ELSE <<>>
       IN  /\ markdownPreview' =
                  [h \in Handles |->
                      IF h \in Range(targets)
                      THEN update(markdownPreview[h], editor.uri)
                      ELSE markdownPreview[h]]
           /\ calls' = CallOn("update", targets)
    /\ op' = Op("onDidChangeActiveTextEditor", NoPreview,
                [resource |-> editor.uri, column |-> 0, locked |-> FALSE],
                editor # NoEditor /\ isMarkdownFile(editor))
    /\ result' = NoResult
    /\ UNCHANGED <<previews, activePreview, disposables, markdownPreviewFocus>>

\* The user or the host closes a session's panel: webview.onDidDispose runs
\* MarkdownPreview.dispose
closePanel(p) ==
    /\ p \in Panels
    /\ LET W == dispose(World, p)
       IN  /\ previews' = W.previews
           /\ markdownPreview' = Collect(W.heap, activePreview)
    /\ calls' = <<<<"dispose", p>>>>
    /\ op' = Op("onDispose", p, NoState, activePreview = p)
    /\ result' = NoResult
    /\ UNCHANGED <<activePreview, disposables, markdownPreviewFocus>>

\* The listener registerPreview attaches to preview.onDidChangeViewState:
\* the panel of session p reports a view-state change, `active` telling
\* whether the panel now has focus.  Only the panel of a session that is not
\* disposed reports (a disposed session has disposed its emitter).
onDidChangeViewState(p, active) ==
    /\ p \in Panels
    /\ LET W == disposeAll(World, redundantPreviews(World, p))
       IN  /\ previews' = W.previews
           /\ markdownPreview' = Collect(W.heap, activeAfterViewState(p, active))
    /\ markdownPreviewFocus' = active
    /\ activePreview' = activeAfterViewState(p, active)
    /\ calls' = <<<<"setContext", p>>>>
    /\ op' = [Op("onDidChangeViewState", p, NoState, active)
                  EXCEPT !.previous = activePreview]
    /\ result' = NoResult
    /\ UNCHANGED disposables

Next ==
    \/ \E resource \in Resources, previewColumn \in Columns, locked \in BOOLEAN :
           preview(resource, previewColumn, locked)
    \/ toggleLock
    \/ refresh
    \/ updateConfiguration
    \/ \E webviewValid \in BOOLEAN, st \in States :
           deserializeWebview(webviewValid, st)
    \/ \E webview \in Handles : serializeWebview(webview)
    \/ managerDispose
    \/ \E editor \in Editors : onDidChangeActiveTextEditor(editor)
    \/ \E p \in Handles : closePanel(p)
    \/ \E p \in Handles, active \in BOOLEAN : onDidChangeViewState(p, active)

Spec == Init /\ [][Next]_vars

\* Sequences of requestPreview calls only
NextPreview ==
    \E resource \in Resources, previewColumn \in Columns, locked \in BOOLEAN :
        preview(resource, previewColumn, locked)

SpecPreview == Init /\ [][NextPreview]_vars

\* ------------------------------------------------------------ vocabulary
Tracked == Range(previews)

Triples == [resource : Resources, column : Columns, locked : BOOLEAN]

\* The tracked sessions of heap that satisfy the triple t
Matching(arr, heap, t) ==
    {h \in Range(arr) : matchesResource(heap[h], t.resource, t.column, t.locked)}

OpTriple(o) == [resource |-> o.resource, column |-> o.column, locked |-> o.locked]

\* ---------------------------------------------------------------- claims

\* C1: under sequences of requestPreview calls, the tracked collection holds
\* at most one session per (resource, slot, locked) triple after every call,
\* and exactly one for the triple just requested; a call that found a
\* session revealed it.
C1_AtMostOnePerTriple ==
    /\ \A t \in Triples : Cardinality(Matching(previews, markdownPreview, t)) <= 1
    /\ op.name = "preview" =>
           /\ Matching(previews, markdownPreview, OpTriple(op)) = {op.preview}
           /\ op.flag => calls[1] = <<"reveal", op.preview>>

C1_Witness ==
    /\ op.name = "preview"
    /\ op.flag
    /\ calls[1] = <<"reveal", op.preview>>
    /\ Len(previews) >= 2

\* C2: after toggleLock ran with an active tracked session, no other tracked
\* session matches the toggled one.
C2_ToggleLockLeavesNoMatch ==
    (op.name = "toggleLock" /\ op.flag /\ op.preview \in Tracked) =>
        \A h \in Tracked \ {op.preview} :
            ~matches(markdownPreview[op.preview], markdownPreview[h])

\* C3: no two tracked sessions in one slot are both locked to the same
\* resource, and no two tracked unlocked sessions share a slot.
C3_NoRedundantSessions ==
    \A a \in Tracked : \A b \in Tracked \ {a} :
        markdownPreview[a].column = markdownPreview[b].column =>
            /\ ~(/\ markdownPreview[a].locked
                 /\ markdownPreview[b].locked
                 /\ markdownPreview[a].resource = markdownPreview[b].resource)
            /\ ~(~markdownPreview[a].locked /\ ~markdownPreview[b].locked)

\* C4: a disposed session is not tracked, and if it was the recorded active
\* session the active-resource accessor is undefined from then on.
C4_DisposedIsDeregistered ==
    \A h \in Handles :
        markdownPreview[h].status = "Disposed" =>
            /\ h \notin Tracked
            /\ activePreview = h => activePreviewResource = "undefined"

C6_FocusMoveKeepsSecondActive ==
    [][(/\ op.name = "onDidChangeViewState" /\ op.flag
        /\ activePreview = op.preview /\ markdownPreviewFocus
        /\ op.previous = op'.preview
        /\ op'.name = "onDidChangeViewState" /\ ~op'.flag
        /\ op'.preview # op.preview
        /\ op'.preview \in Tracked
        /\ op.preview \in Range(previews')
        /\ markdownPreview[op'.preview].column = markdownPreview[op.preview].column)
       => (activePreview' = op.preview /\ markdownPreviewFocus')]_vars

\* C7: deserializeWebview with a panel handle that is not valid reports
\* failure and registers no session for it.
C7_InvalidRestoreFails ==
    (op.name = "deserializeWebview" /\ ~op.flag) =>
        (result.value = FALSE /\ op.preview \notin Tracked)

C9_SerializeIsPure ==
    [][op'.name = "serializeWebview" =>
           /\ UNCHANGED <<previews, markdownPreview, activePreview,
                          markdownPreviewFocus, disposables>>
           /\ IF op'.preview \in Tracked
              THEN /\ result'.kind = "state"
                   /\ result'.state = state(markdownPreview[op'.preview])
              ELSE result'.kind = "undefined"]_vars

C9_Witness ==
    /\ op.name = "serializeWebview"
    /\ result.kind = "undefined"
    /\ markdownPreview[op.preview].status = "Disposed"
    /\ previews # <<>>

\* C10: requestPreview creates a session exactly when no tracked session has
\* the requested resource, slot and lock flag, appending it and leaving the
\* others as they were; when a match exists the collection is unchanged and
\* the match is revealed and then updated.
C10_CreateExactlyWhenNoMatch ==
    [][op'.name = "preview" =>
           LET M == Matching(previews, markdownPreview, OpTriple(op'))
           IN  IF M = {}
               THEN /\ ~op'.flag
                    /\ op'.preview \notin Tracked
                    /\ previews' = Append(previews, op'.preview)
                    /\ markdownPreview'[op'.preview].status = "Active"
                    /\ state(markdownPreview'[op'.preview]) = OpTriple(op')
                    /\ \A h \in Handles \ {op'.preview} :
                           markdownPreview'[h] = markdownPreview[h]
               ELSE /\ op'.flag
                    /\ op'.preview \in M
                    /\ previews' = previews
                    /\ markdownPreview' = markdownPreview
                    /\ calls' = <<<<"reveal", op'.preview>>,
                                  <<"update", op'.preview>>>>]_vars

C10_Witness ==
    /\ op.name = "preview" /\ ~op.flag /\ ~op.locked
    /\ previews[Len(previews)] = op.preview
    /\ \E h \in Tracked \ {op.preview} :
           /\ markdownPreview[h].locked
           /\ markdownPreview[h].resource = op.resource
           /\ markdownPreview[h].column = op.column

\* C11: toggleLock called while no live session is the recorded active one
\* (none recorded, or the recorded one is disposed) disposes no tracked
\* session and changes no tracked session's lock flag.
C11_ToggleLockWithoutLiveActiveIsNoOp ==
    [][(/\ op'.name = "toggleLock"
        /\ \/ activePreview = NoPreview
           \/ markdownPreview[activePreview].status = "Disposed")
       => /\ previews' = previews
          /\ \A h \in Tracked :
                 /\ markdownPreview'[h].status = markdownPreview[h].status
                 /\ markdownPreview'[h].locked = markdownPreview[h].locked]_vars

\* C12: in every step, a live session's resource changes only if the step
\* is an active-editor change and the session was unlocked before it; no
\* preview, toggleLock, refresh, updateConfiguration or view-state step
\* changes the resource of a session, and no step at all changes the
\* resource of a locked one.
C12_ResourceChangesOnlyByEditorChange ==
    [][\A h \in Handles :
           (/\ markdownPreview[h].status = "Active"
            /\ markdownPreview'[h].status = "Active"
            /\ markdownPreview'[h].resource # markdownPreview[h].resource)
           => /\ op'.name = "onDidChangeActiveTextEditor"
              /\ ~markdownPreview[h].locked]_vars

\* A preview request reused a tracked unlocked session while a tracked
\* session locked to another resource exists
C12_Witness ==
    /\ op.name = "preview" /\ op.flag
    /\ ~markdownPreview[op.preview].locked
    /\ <<"update", op.preview>> \in Range(calls)
    /\ \E h \in Tracked :
           /\ markdownPreview[h].locked
           /\ markdownPreview[h].resource # op.resource

\* C13: refresh and updateConfiguration each call the method on every
\* tracked session, locked or not, exactly once, and leave the tracked
\* collection, every session object, the active session and the context
\* flag unchanged.
C13_RefreshReachesAllAndChangesNothing ==
    [][op'.name \in {"refresh", "updateConfiguration"} =>
           /\ Len(calls') = Len(previews)
           /\ \A h \in Tracked :
                  Cardinality({i \in 1 .. Len(calls') :
                                   calls'[i] = <<op'.name, h>>}) = 1
           /\ UNCHANGED <<previews, markdownPreview, activePreview,
                          markdownPreviewFocus>>]_vars

C13_Witness ==
    /\ op.name = "updateConfiguration"
    /\ \E h \in Tracked :
           markdownPreview[h].locked /\ <<op.name, h>> \in Range(calls)
    /\ \E h \in Tracked :
           ~markdownPreview[h].locked /\ <<op.name, h>> \in Range(calls)
    /\ activePreview \in Tracked

\* C14: the context flag is true exactly when an active session is
\* recorded: initially and after every step the two agree, a view-state
\* step sets the flag to what the panel reported, and no other step changes
\* the flag or the recorded active session.
C14_FocusFlagMirrorsActivePreview ==
    /\ markdownPreviewFocus <=> activePreview # NoPreview
    /\ [][/\ markdownPreviewFocus' <=> activePreview' # NoPreview
          /\ op'.name = "onDidChangeViewState" => markdownPreviewFocus' = op'.flag
          /\ op'.name # "onDidChangeViewState" =>
                 UNCHANGED <<markdownPreviewFocus, activePreview>>]_vars

\* A session that was recorded active reported that it lost focus
C14_Witness ==
    /\ op.name = "onDidChangeViewState" /\ ~op.flag
    /\ op.previous = op.preview
    /\ ~markdownPreviewFocus
    /\ activePreview = NoPreview
    /\ op.preview \in Tracked

\* C15: the manager's dispose disposes every session tracked at that
\* moment, each exactly once, touches no other session and leaves the
\* tracked collection empty; an active-editor change after it calls update
\* on no session and changes no session.
C15_ShutdownDisposesAllTracked ==
    [][/\ op'.name = "dispose" =>
              /\ previews' = <<>>
              /\ Len(calls') = Len(previews)
              /\ \A h \in Tracked :
                     /\ markdownPreview[h].status = "Active"
                     /\ markdownPreview'[h].status = "Disposed"
                     /\ Cardinality({i \in 1 .. Len(calls') :
                                         calls'[i] = <<"dispose", h>>}) = 1
              /\ \A h \in Handles \ Tracked :
                     markdownPreview'[h] = markdownPreview[h]
       /\ (op'.name = "onDidChangeActiveTextEditor" /\ ~disposables) =>
              /\ calls' = <<>>
              /\ UNCHANGED <<previews, markdownPreview>>]_vars

\* Shutdown has just disposed several tracked sessions
C15_Witness ==
    /\ op.name = "dispose"
    /\ ~disposables
    /\ previews = <<>>
    /\ Len(calls) >= 2
    /\ \A i \in 1 .. Len(calls) :
           markdownPreview[calls[i][2]].status = "Disposed"

\* C16: in every reachable state the tracked collection holds no disposed
\* (and no never-created) session and no session twice; a disposed session
\* stays disposed and is not in the collection after any later step.
C16_DisposedIsTerminal ==
    /\ \A i \in 1 .. Len(previews) :
           /\ markdownPreview[previews[i]].status = "Active"
           /\ \A j \in 1 .. Len(previews) : previews[i] = previews[j] => i = j
    /\ [][\A h \in Handles :
              markdownPreview[h].status = "Disposed" =>
                  /\ markdownPreview'[h].status = "Disposed"
                  /\ h \notin Range(previews')]_vars

\* A session was created and registered after another one had been
\* disposed, next to a session that survived
C16_Witness ==
    /\ op.name \in {"preview", "deserializeWebview"}
    /\ previews[Len(previews)] = op.preview
    /\ Len(previews) >= 2
    /\ \E h \in Handles :
           /\ markdownPreview[h].status = "Disposed"
           /\ h < op.preview
           /\ h \notin Tracked

\* C17: when a tracked session S reports a view-state change, gaining or
\* losing focus, every other tracked session that matches S is disposed and
\* removed in that step, the sessions that do not match stay in their
\* order, and S stays tracked and as it was.
C17_ViewStateEvictsEveryMatch ==
    [][(op'.name = "onDidChangeViewState" /\ op'.preview \in Tracked) =>
           LET S == op'.preview
               M == {h \in Tracked \ {S} :
                        matches(markdownPreview[S], markdownPreview[h])}
           IN  /\ \A h \in M : /\ h \notin Range(previews')
                                /\ markdownPreview'[h].status = "Disposed"
               /\ previews' = SelectSeq(previews, LAMBDA h : h \notin M)
               /\ S \in Range(previews')
               /\ markdownPreview'[S] = markdownPreview[S]]_vars

\* A session reported that it lost focus and is the only one left tracked,
\* the two others being disposed
C17_Witness ==
    /\ op.name = "onDidChangeViewState" /\ ~op.flag
    /\ previews = <<op.preview>>
    /\ Cardinality({h \in Handles :
                        markdownPreview[h].status = "Disposed"}) >= 2

\* C18: the tracked session recorded as active is still tracked after a
\* toggleLock step and after a view-state change reported by a different
\* session.
C18_EvictionSparesActivePreview ==
    [][(/\ activePreview \in Tracked
        /\ \/ op'.name = "toggleLock"
           \/ op'.name = "onDidChangeViewState" /\ op'.preview # activePreview)
       => /\ activePreview \in Range(previews')
          /\ markdownPreview'[activePreview].status = "Active"]_vars

\* C19: the tracked collection is in creation order (handles are handed out
\* in creation order): every step either appends one session that was not
\* tracked, at the end, or leaves the sessions that remain in the order
\* they had.
C19_CollectionKeepsCreationOrder ==
    /\ \A i \in 1 .. Len(previews) : \A j \in 1 .. Len(previews) :
           i < j => previews[i] < previews[j]
    /\ [][\/ /\ op'.name \in {"preview", "deserializeWebview"}
             /\ op'.preview \notin Tracked
             /\ previews' = previews \o <<op'.preview>>
          \/ previews' =
                 SelectSeq(previews, LAMBDA h : h \in Range(previews'))]_vars

\* The session in the middle of three was closed
C19_Witness ==
    /\ op.name = "onDispose"
    /\ Len(previews) = 2
    /\ previews[1] < op.preview
    /\ op.preview < previews[2]

====
